---- MODULE Spec2Model ----
(***************************************************************************)
(* Model of the two fixture producers of text-to-rdf:                      *)
(*   scripts/create_long_test_doc.py  (Segmenter, DocumentAssembler,       *)
(*                                     FixtureStore load/append/save)      *)
(*   scripts/fetch_docred.py          (CorpusFilter, save, summary)        *)
(*                                                                         *)
(* A Python str is a sequence of one-character strings; the sentences of a *)
(* corpus record, and of a document once it is in the state, are kept as   *)
(* character counts.  A fixture file is a sequence of JSON tokens          *)
(* (whitespace and indentation are dropped by the tokenizer and are not    *)
(* modelled); a JSON object is one token, named by the "id" it carries.    *)
(***************************************************************************)
EXTENDS Integers, Sequences, FiniteSets, TLC

VARIABLES
    prog,          \* which script / function is being run
    pc,            \* its position
    full_text,     \* Segmenter: the raw text
    sents,         \* Segmenter: the paragraphs produced
    in_vertexSet,  \* DocumentAssembler: entity table handed to the return statement
    in_labels,     \* DocumentAssembler: relation table handed to the return statement
    asm_result,    \* DocumentAssembler: what the construction yielded
    file,          \* tests/fixtures/docred_sample.json
    file0,         \* its content before the first run (history)
    prev_file,     \* its content before the latest run (history)
    doc,           \* create_long_test_doc.main: the document built by the latest run,
                   \* each sentence kept as its character count
    report,        \* report lines of the latest run / summary
    err,           \* exception that ended the latest run, "none" if it completed
    runs,          \* number of runs of create_long_test_doc.py so far
    dataset,       \* fetch_docred: the corpus split, in order
    consumed,      \* fetch_docred: number of candidates the for loop has read
    selected_docs, \* fetch_docred: selected_docs
    out_file,      \* tests/fixtures/docred_long_docs.json
    out_file0      \* its content before the run (history)

vars == <<prog, pc, full_text, sents, in_vertexSet, in_labels, asm_result,
          file, file0, prev_file, doc, report, err, runs,
          dataset, consumed, selected_docs, out_file, out_file0>>

segVars   == <<full_text, sents>>
asmVars   == <<in_vertexSet, in_labels, asm_result>>
synthVars == <<file, file0, prev_file, doc, err, runs>>
fetchVars == <<dataset, consumed, selected_docs, out_file, out_file0>>

----------------------------------------------------------------------------
(* Bounds of the model *)

MaxTextLen == 9      \* longest enumerated raw text, in characters
MaxFileLen == 5      \* longest enumerated initial fixture file, in tokens
MaxRuns    == 2      \* runs of create_long_test_doc.py against the same file
MaxDataset == 4      \* longest enumerated corpus
MaxTableLen == 1     \* longest enumerated relation table handed to the assembler
MaxEntities == 3     \* largest enumerated entity table handed to the assembler

----------------------------------------------------------------------------
(* Python helpers *)

Min(S) == CHOOSE x \in S : \A y \in S : x <= y
Max(S) == CHOOSE x \in S : \A y \in S : y <= x

\* str.isspace() for the characters the texts contain
IsSpace(c) == c \in {" ", "\n", "\t"}

\* seq[i:j] with 0-based i, j clamped to the length
Slice(seq, i, j) == SubSeq(seq, i + 1, Min({j, Len(seq)}))

\* range(start, stop, step) as a sequence
Range(start, stop, step) ==
    LET R == {i \in start..(stop - 1) : (i - start) % step = 0}
    IN  [k \in 1..Cardinality(R) |-> start + (k - 1) * step]

\* [f(x) for x in seq]
RECURSIVE Flatten(_)
Flatten(paras) ==
    IF paras = <<>> THEN <<>> ELSE Head(paras) \o Flatten(Tail(paras))

\* sep.join(strs)
RECURSIVE Join(_, _)
Join(strs, sep) ==
    IF strs = <<>> THEN <<>>
    ELSE IF Len(strs) = 1 THEN strs[1]
    ELSE strs[1] \o sep \o Join(Tail(strs), sep)

----------------------------------------------------------------------------
(* Segmenter: create_long_test_doc.py lines 107-114 *)

\* s.split('.'): the fragments between consecutive terminators
Split(s) ==
    LET d == {i \in 1..Len(s) : s[i] = "."}
        n == Cardinality(d) + 1
        dot(k) == CHOOSE p \in d : Cardinality({q \in d : q < p}) = k - 1
        first(k) == IF k = 1 THEN 1 ELSE dot(k - 1) + 1
        last(k) == IF k = n THEN Len(s) ELSE dot(k) - 1
    IN  [k \in 1..n |-> SubSeq(s, first(k), last(k))]

\* s.strip()
Strip(s) ==
    LET nw == {i \in 1..Len(s) : ~IsSpace(s[i])}
    IN  IF nw = {} THEN <<>> ELSE SubSeq(s, Min(nw), Max(nw))

\* line 108 without its filter: [s.strip() for s in full_text.split('.')]
SentencesUnfiltered(text) ==
    [k \in 1..Len(Split(text)) |-> Strip(Split(text)[k])]

\* line 108: [s.strip() for s in full_text.split('.') if s.strip()]
Sentences(text) ==
    LET kept == SelectSeq(Split(text), LAMBDA f : Strip(f) # <<>>)
    IN  [k \in 1..Len(kept) |-> Strip(kept[k])]

ParagraphSize == 4

\* line 114: [s + '.' for s in paragraph if s]
Terminate(paragraph) ==
    LET kept == SelectSeq(paragraph, LAMBDA s : s # <<>>)
    IN  [k \in 1..Len(kept) |-> kept[k] \o <<".">>]

\* lines 111-114
Paragraphs(sentences) ==
    LET starts == Range(0, Len(sentences), ParagraphSize)
    IN  [k \in 1..Len(starts) |->
            Terminate(Slice(sentences, starts[k], starts[k] + ParagraphSize))]

Segmenter(text) == Paragraphs(Sentences(text))

----------------------------------------------------------------------------
(* The literal text: create_long_test_doc.py lines 14-105 *)

\* n copies of the character c
Chars(c, n) == [i \in 1..n |-> c]

\* The text of lines 14-105, one pair per '.'-delimited fragment, in order:
\* <<number of whitespace characters before the fragment's first
\* non-whitespace character, number of characters from there to the end of
\* the fragment>>.  No fragment of the literal ends in whitespace; the last
\* fragment is the newline that follows the final terminator.
FullTextFragments ==
    <<
       <<1, 119>>, <<1, 92>>, <<1, 174>>, <<1, 186>>, <<2, 122>>, <<1, 124>>,
       <<1, 189>>, <<1, 185>>, <<1, 106>>, <<2, 131>>, <<1, 58>>, <<1, 106>>,
       <<1, 105>>, <<2, 132>>, <<1, 134>>, <<1, 117>>, <<2, 58>>, <<1, 54>>,
       <<1, 127>>, <<1, 47>>, <<2, 100>>, <<1, 75>>, <<1, 172>>, <<2, 71>>,
       <<1, 67>>, <<1, 112>>, <<1, 58>>, <<2, 73>>, <<1, 123>>, <<1, 111>>,
       <<2, 81>>, <<1, 113>>, <<1, 46>>, <<2, 132>>, <<1, 53>>, <<1, 114>>,
       <<2, 111>>, <<1, 79>>, <<1, 53>>, <<1, 61>>, <<2, 94>>, <<1, 76>>,
       <<1, 121>>, <<2, 81>>, <<1, 68>>, <<1, 98>>, <<1, 90>>, <<2, 106>>,
       <<1, 89>>, <<1, 77>>, <<2, 66>>, <<1, 97>>, <<1, 77>>, <<1, 101>>,
       <<2, 100>>, <<1, 78>>, <<1, 59>>, <<1, 97>>, <<1, 0>>
    >>

\* full_text as a character sequence.  split('.') and strip() read only
\* whether a character is the terminator, whitespace at a fragment's edge, or
\* something else, so leading whitespace is written " " and every other
\* character of a fragment "x".
FullText ==
    Join([k \in 1..Len(FullTextFragments) |->
             Chars(" ", FullTextFragments[k][1]) \o Chars("x", FullTextFragments[k][2])],
         <<".">>)

----------------------------------------------------------------------------
(* DocumentAssembler: create_long_test_doc.py lines 116-145 *)

Mention(name, sent_id, type, start, end) ==
    [name |-> name, sent_id |-> sent_id, type |-> type, pos |-> <<start, end>>]

\* lines 117-126
vertexSet ==
    << <<Mention("Marie Curie", 0, "PER", 0, 2)>>,
       <<Mention("Warsaw", 0, "LOC", 10, 11)>>,
       <<Mention("Poland", 0, "LOC", 12, 13)>>,
       <<Mention("University of Paris", 2, "ORG", 8, 11)>>,
       <<Mention("Pierre Curie", 3, "PER", 5, 7)>>,
       <<Mention("France", 4, "LOC", 12, 13)>>,
       <<Mention("Radium Institute", 10, "ORG", 8, 10)>>,
       <<Mention("Paris", 10, "LOC", 11, 12)>> >>

\* lines 129-137 with the last head index one past the entity table
LabelsOffByOne ==
    << [h |-> 0, t |-> 1, r |-> "P19"],
       [h |-> 0, t |-> 2, r |-> "P27"],
       [h |-> 0, t |-> 3, r |-> "P69"],
       [h |-> 1, t |-> 2, r |-> "P17"],
       [h |-> 4, t |-> 0, r |-> "P26"],
       [h |-> 0, t |-> 5, r |-> "P20"],
       [h |-> 8, t |-> 5, r |-> "P17"] >>

\* lines 129-137
labels ==
    << [h |-> 0, t |-> 1, r |-> "P19"],
       [h |-> 0, t |-> 2, r |-> "P27"],
       [h |-> 0, t |-> 3, r |-> "P69"],
       [h |-> 1, t |-> 2, r |-> "P17"],
       [h |-> 4, t |-> 0, r |-> "P26"],
       [h |-> 0, t |-> 5, r |-> "P20"],
       [h |-> 7, t |-> 5, r |-> "P17"] >>

\* lines 139-145: the returned record.  The function checks nothing: whatever
\* tables reach the return statement are copied into the document.
Assemble(paras, vs, ls) ==
    [id |-> "long_doc_marie_curie",
     title |-> "Marie Curie (Long Article)",
     sents |-> paras,
     vertexSet |-> vs,
     labels |-> ls]

\* lines 10-145
create_long_test_document == Assemble(Segmenter(FullText), vertexSet, labels)

\* value of the variable doc before main has run
NoDoc == [id |-> "", title |-> "", sents |-> <<>>, vertexSet |-> <<>>, labels |-> <<>>]

----------------------------------------------------------------------------
(* Token estimate and chunking trigger:                                     *)
(* create_long_test_doc.py lines 151-161, fetch_docred.py lines 68-74       *)

CharsPerToken == 4
ChunkTokens == 2000

\* char_count // 4
ApproxTokens(char_count) == char_count \div CharsPerToken

\* the trigger with >= in place of >
TriggerAtLeast(tokens) == IF tokens >= ChunkTokens THEN "YES" ELSE "NO"

\* 'YES' if token_estimate > 2000 else 'NO'
Trigger(tokens) == IF tokens > ChunkTokens THEN "YES" ELSE "NO"

\* the figures one report block prints
Stats(title, n_sents, char_count) ==
    [title |-> title, sentences |-> n_sents, chars |-> char_count,
     tokens |-> ApproxTokens(char_count),
     trigger |-> Trigger(ApproxTokens(char_count))]

\* create_long_test_doc.py lines 151-161
DocStats(d) ==
    LET all_sents == Flatten(d.sents)
        text == Join(all_sents, <<" ">>)
    IN  Stats(d.title, Len(all_sents), Len(text))

----------------------------------------------------------------------------
(* Fixture file: json.load / json.dump at the token level *)

\* a JSON value: an object (named by its id) or an array of values
Obj(id) == [k |-> "obj", id |-> id, items |-> <<>>]
Arr(items) == [k |-> "arr", id |-> "", items |-> items]

StructTokens == {"[", "]", ","}
BadToken == "#"      \* any text that is no JSON token
IsObjToken(tok) == tok \notin StructTokens \cup {BadToken}

ParseFail == [ok |-> FALSE, val |-> Arr(<<>>), nxt |-> 0]

\* the decoder: one value starting at token i
RECURSIVE ParseValue(_, _), ParseItems(_, _, _)
ParseValue(t, i) ==
    IF i > Len(t) THEN ParseFail
    ELSE IF IsObjToken(t[i]) THEN [ok |-> TRUE, val |-> Obj(t[i]), nxt |-> i + 1]
    ELSE IF t[i] = "[" THEN
        IF i + 1 <= Len(t) /\ t[i + 1] = "]"
        THEN [ok |-> TRUE, val |-> Arr(<<>>), nxt |-> i + 2]
        ELSE ParseItems(t, i + 1, <<>>)
    ELSE ParseFail

ParseItems(t, i, acc) ==
    LET v == ParseValue(t, i)
    IN  IF ~v.ok \/ v.nxt > Len(t) THEN ParseFail
        ELSE IF t[v.nxt] = "," THEN ParseItems(t, v.nxt + 1, Append(acc, v.val))
        ELSE IF t[v.nxt] = "]"
        THEN [ok |-> TRUE, val |-> Arr(Append(acc, v.val)), nxt |-> v.nxt + 1]
        ELSE ParseFail

\* a file: absent, or present with its tokens
Absent == [exists |-> FALSE, toks |-> <<>>]
Present(toks) == [exists |-> TRUE, toks |-> toks]

\* open(path, 'r') + json.load(f): the value, or the exception raised
json_load(f) ==
    IF ~f.exists THEN [ok |-> FALSE, exc |-> "FileNotFoundError", val |-> Arr(<<>>)]
    ELSE LET r == ParseValue(f.toks, 1)
         IN  IF r.ok /\ r.nxt = Len(f.toks) + 1
             THEN [ok |-> TRUE, exc |-> "none", val |-> r.val]
             ELSE [ok |-> FALSE, exc |-> "JSONDecodeError", val |-> Arr(<<>>)]

\* json.dump(value, f, indent=2, ensure_ascii=False): the tokens written
RECURSIVE json_dump(_)
json_dump(v) ==
    IF v.k = "obj" THEN <<v.id>>
    ELSE <<"[">> \o Join([k \in 1..Len(v.items) |-> json_dump(v.items[k])], <<",">>)
               \o <<"]">>

\* a Document as the JSON object written for it
DocJson(d) == Obj(d.id)

----------------------------------------------------------------------------
(* FixtureStore as create_long_test_doc.main uses it: lines 166-176 *)

\* lines 167-171: try: existing_docs = json.load(f)  except: existing_docs = []
LoadExisting(f) ==
    LET r == json_load(f) IN IF r.ok THEN r.val ELSE Arr(<<>>)

\* the append as an insert at the front
AppendDocFront(value, d) == Arr(<<DocJson(d)>> \o value.items)

\* line 173: existing_docs.append(doc); only a list has the method
CanAppend(value) == value.k = "arr"
AppendDoc(value, d) == Arr(Append(value.items, DocJson(d)))

\* lines 175-176: open(path, 'w') + json.dump
Save(value) == Present(json_dump(value))

----------------------------------------------------------------------------
(* CorpusFilter: fetch_docred.py lines 25-54 *)

\* A corpus string is represented by its character count, the only property
\* of it the script reads (lines 34-35, 69-70).
RECURSIVE Sum(_)
Sum(ns) == IF ns = <<>> THEN 0 ELSE Head(ns) + Sum(Tail(ns))

\* len(' '.join(sents_flat))
JoinedLen(sents_flat) ==
    IF sents_flat = <<>> THEN 0 ELSE Sum(sents_flat) + (Len(sents_flat) - 1)

MinSentences == 10
MinEntities == 5
MinRelations == 3
MinChars == 2000
TargetCount == 3

\* line 37 with >= in place of > on the character count
QualifiesLoose(cand) ==
    LET sents_flat == Flatten(cand.sents)
    IN  /\ Len(sents_flat) >= MinSentences
        /\ Len(cand.vertexSet) >= MinEntities
        /\ Len(cand.labels) >= MinRelations
        /\ JoinedLen(sents_flat) >= MinChars

\* line 37
Qualifies(cand) ==
    LET sents_flat == Flatten(cand.sents)
        num_sentences == Len(sents_flat)
        num_entities == Len(cand.vertexSet)
        num_relations == Len(cand.labels)
        char_count == JoinedLen(sents_flat)
    IN  /\ num_sentences >= MinSentences
        /\ num_entities >= MinEntities
        /\ num_relations >= MinRelations
        /\ char_count > MinChars

\* str(idx) for the indexes the model reaches
Digits == <<"0", "1", "2", "3", "4", "5", "6", "7", "8", "9">>

\* lines 45-51
Selected(idx, cand) ==
    [id |-> "docred_" \o Digits[idx + 1],
     title |-> cand.title,
     sents |-> cand.sents,
     vertexSet |-> cand.vertexSet,
     labels |-> cand.labels]

\* line 53 with > in place of >=
EnoughLate(selected) == Len(selected) > TargetCount

\* line 53
Enough(selected) == Len(selected) >= TargetCount

\* the save as a load, append and write
SaveSelectedAppend(selected) ==
    Present(json_dump(Arr(
        (IF CanAppend(LoadExisting(out_file)) THEN LoadExisting(out_file).items ELSE <<>>)
            \o [k \in 1..Len(selected) |-> DocJson(selected[k])])))

\* lines 57-59: the whole of selected_docs is written over the file
SaveSelected(selected) ==
    Present(json_dump(Arr([k \in 1..Len(selected) |-> DocJson(selected[k])])))

\* lines 68-74
SummaryStats(d) ==
    LET sents_flat == Flatten(d.sents)
    IN  Stats(d.title, Len(sents_flat), JoinedLen(sents_flat))

----------------------------------------------------------------------------
(* Inputs *)

\* n opaque list elements
Opaque(n) == [i \in 1..n |-> i]

\* candidate records of the corpus; sentences are given by their lengths
Cand(title, paras, n_entities, n_relations) ==
    [title |-> title, sents |-> paras,
     vertexSet |-> Opaque(n_entities), labels |-> Opaque(n_relations)]

\* ten sentences in paragraphs of 4, 4, 2 whose joined length is total
TenSentences(total) ==
    << <<800, 800, 800, 800>>, <<800, 800, 800, 800>>,
       <<800, total - 9 - 9 * 800>> >>

Candidates ==
    { Cand("yes", TenSentences(8004), 5, 3),              \* 2001 tokens
      Cand("no", TenSentences(8003), 6, 4),               \* 2000 tokens
      Cand("few sentences", << <<800, 800, 800, 800>>, <<800, 800, 800, 800>>, <<800>> >>, 5, 3),
      Cand("few entities", TenSentences(8004), 4, 3),
      Cand("few relations", TenSentences(8004), 5, 2),
      Cand("short", << <<200, 200, 200, 200>>, <<200, 200, 200, 200>>, <<200, 191>> >>, 5, 3) }

SeqsUpTo(S, n) == UNION {[1..k -> S] : k \in 0..n}

\* the 5-document stream in which only positions 1 and 3 qualify
ScenarioDataset ==
    << Cand("short", << <<200, 200, 200, 200>>, <<200, 200, 200, 200>>, <<200, 191>> >>, 5, 3),
       Cand("yes", TenSentences(8004), 5, 3),
       Cand("few entities", TenSentences(8004), 4, 3),
       Cand("no", TenSentences(8003), 6, 4),
       Cand("few relations", TenSentences(8004), 5, 2) >>

Datasets == SeqsUpTo(Candidates, MaxDataset) \cup {ScenarioDataset}

FileTokens == {"[", "]", ",", "d1", "d2", BadToken}

Files == {Absent} \cup {Present(t) : t \in SeqsUpTo(FileTokens, MaxFileLen)}

OutFiles == {Absent, Present(<<"[", "d1", ",", "d2", "]">>), Present(<<BadToken>>)}

TextAlphabet == {"A", " ", "."}

ScenarioTexts ==
    { <<"A", ".", " ", "B", ".", " ", "C", ".", " ", "D", ".", " ", "E", ".">>,
      <<"A", ".", "B", ".", "C", ".", "D", ".", "E", ".", "F", ".", "G", ".", "H">>,
      <<"A", ".", "B", ".", "\n", ".", "C", ".", "D", ".", "E", ".", "F", ".", "G", ".",
        "H", ".", "I", " ", ".", ".">> }

Texts == SeqsUpTo(TextAlphabet, MaxTextLen) \cup ScenarioTexts

Label(h, t) == [h |-> h, t |-> t, r |-> "P19"]

\* relation tables over indexes from -1 to two past the largest entity table
LabelTables ==
    SeqsUpTo({Label(h, t) : h, t \in (-1)..(MaxEntities + 2)}, MaxTableLen)

\* entity tables: prefixes of the literal table
EntityTables == {SubSeq(vertexSet, 1, n) : n \in 0..MaxEntities}

----------------------------------------------------------------------------
(* State machine *)

SegIdle   == full_text = <<>> /\ sents = <<>>
AsmIdle   == in_vertexSet = <<>> /\ in_labels = <<>> /\ asm_result = [ok |-> FALSE, doc |-> NoDoc]
SynthIdle == file = Absent /\ file0 = Absent /\ prev_file = Absent /\ doc = NoDoc
             /\ err = "none" /\ runs = 0
FetchIdle == dataset = <<>> /\ consumed = 0 /\ selected_docs = <<>>
             /\ out_file = Absent /\ out_file0 = Absent

InitSeg ==
    /\ prog = "segmenter" /\ pc = "start"
    /\ full_text \in Texts /\ sents = <<>>
    /\ report = <<>>
    /\ AsmIdle /\ SynthIdle /\ FetchIdle

InitAsm ==
    /\ prog = "assembler" /\ pc = "start"
    /\ in_vertexSet \in EntityTables /\ in_labels \in LabelTables
    /\ asm_result = [ok |-> FALSE, doc |-> NoDoc]
    /\ report = <<>>
    /\ SegIdle /\ SynthIdle /\ FetchIdle

InitSynth ==
    /\ prog = "create_long_test_doc" /\ pc = "start"
    /\ file \in Files /\ file0 = file /\ prev_file = file
    /\ doc = NoDoc /\ err = "none" /\ runs = 0
    /\ report = <<>>
    /\ SegIdle /\ AsmIdle /\ FetchIdle

InitFetch ==
    /\ prog = "fetch_docred" /\ pc = "loop"
    /\ dataset \in Datasets /\ consumed = 0 /\ selected_docs = <<>>
    /\ out_file \in OutFiles /\ out_file0 = out_file
    /\ report = <<>>
    /\ SegIdle /\ AsmIdle /\ SynthIdle

\* create_long_test_doc.py lines 107-114 applied to a text
Segment ==
    /\ prog = "segmenter" /\ pc = "start"
    /\ sents' = Segmenter(full_text)
    /\ pc' = "done"
    /\ UNCHANGED <<prog, full_text, report, asmVars, synthVars, fetchVars>>

\* create_long_test_doc.py lines 139-145 applied to a pair of tables
AssembleDocument ==
    /\ prog = "assembler" /\ pc = "start"
    /\ asm_result' = [ok |-> TRUE, doc |-> Assemble(<<>>, in_vertexSet, in_labels)]
    /\ pc' = "done"
    /\ UNCHANGED <<prog, in_vertexSet, in_labels, report, segVars, synthVars, fetchVars>>

\* line 148: doc = create_long_test_document()
main_doc == create_long_test_document

\* a document as the state keeps it: each sentence by its character count
Measured(d) ==
    [d EXCEPT !.sents = [p \in 1..Len(d.sents) |->
                            [k \in 1..Len(d.sents[p]) |-> Len(d.sents[p][k])]]]

\* lines 150-163: the statistics main prints for doc
main_stats == DocStats(main_doc)

\* one run of create_long_test_doc.py: main, lines 147-179
RunCreateLongTestDoc ==
    /\ prog = "create_long_test_doc" /\ runs < MaxRuns
    /\ LET d == main_doc
           existing_docs == LoadExisting(file)
       IN  /\ doc' = Measured(d)
           /\ report' = <<main_stats>>
           /\ prev_file' = file
           /\ IF CanAppend(existing_docs)
              THEN /\ file' = Save(AppendDoc(existing_docs, d))
                   /\ err' = "none"
                   /\ pc' = "done"
              ELSE /\ file' = file
                   /\ err' = "AttributeError"
                   /\ pc' = "aborted"
    /\ runs' = runs + 1
    /\ UNCHANGED <<prog, file0, segVars, asmVars, fetchVars>>

\* fetch_docred.py lines 27-54: one iteration of the for loop
LoopStep ==
    /\ prog = "fetch_docred" /\ pc = "loop"
    /\ consumed < Len(dataset)
    /\ LET idx == consumed
           cand == dataset[idx + 1]
           picked == IF Qualifies(cand)
                     THEN Append(selected_docs, Selected(idx, cand))
                     ELSE selected_docs
       IN  /\ selected_docs' = picked
           /\ pc' = IF Qualifies(cand) /\ Enough(picked) THEN "save" ELSE "loop"
    /\ consumed' = consumed + 1
    /\ UNCHANGED <<prog, dataset, out_file, out_file0, report, segVars, asmVars, synthVars>>

\* fetch_docred.py line 27: the corpus is exhausted, the loop ends
LoopEnd ==
    /\ prog = "fetch_docred" /\ pc = "loop"
    /\ consumed = Len(dataset)
    /\ pc' = "save"
    /\ UNCHANGED <<prog, dataset, consumed, selected_docs, out_file, out_file0, report,
                   segVars, asmVars, synthVars>>

\* fetch_docred.py lines 57-61
SaveToJson ==
    /\ prog = "fetch_docred" /\ pc = "save"
    /\ out_file' = SaveSelected(selected_docs)
    /\ pc' = "summary"
    /\ UNCHANGED <<prog, dataset, consumed, selected_docs, out_file0, report,
                   segVars, asmVars, synthVars>>

\* fetch_docred.py lines 64-74
PrintSummary ==
    /\ prog = "fetch_docred" /\ pc = "summary"
    /\ report' = [k \in 1..Len(selected_docs) |-> SummaryStats(selected_docs[k])]
    /\ pc' = "done"
    /\ UNCHANGED <<prog, dataset, consumed, selected_docs, out_file, out_file0,
                   segVars, asmVars, synthVars>>

NextSeg == Segment
NextAsm == AssembleDocument
NextSynth == RunCreateLongTestDoc
NextFetch == LoopStep \/ LoopEnd \/ SaveToJson \/ PrintSummary

SpecSeg == InitSeg /\ [][NextSeg]_vars
SpecAsm == InitAsm /\ [][NextAsm]_vars
SpecSynth == InitSynth /\ [][NextSynth]_vars
SpecFetch == InitFetch /\ [][NextFetch]_vars

Init == InitSynth \/ InitFetch
Next == RunCreateLongTestDoc \/ LoopStep \/ LoopEnd \/ SaveToJson \/ PrintSummary
Spec == Init /\ [][Next]_vars

----------------------------------------------------------------------------
(* Claims about the Segmenter (SpecSeg) *)

\* a character that is neither the terminator nor whitespace
IsLetter(c) == c # "." /\ ~IsSpace(c)

\* N: the fragments between terminators that hold a non-whitespace character,
\* counted by the first such character of each
NonBlankFragments(text) ==
    Cardinality({i \in 1..Len(text) :
        /\ IsLetter(text[i])
        /\ \A j \in 1..(i - 1) :
               IsLetter(text[j]) => \E m \in (j + 1)..(i - 1) : text[m] = "."})

\* C5: a text with N sentences yields ceil(N/4) paragraphs; every paragraph
\* but the last has 4 sentences, the last has N mod 4 (4 when N is a positive
\* multiple of 4); N = 0 yields no paragraph.
C5_ParagraphSizes ==
    (prog = "segmenter" /\ pc = "done") =>
        LET N == NonBlankFragments(full_text)
            P == Len(sents)
        IN  /\ 4 * P >= N
            /\ 4 * (P - 1) < N \/ (N = 0 /\ P = 0)
            /\ \A k \in 1..(P - 1) : Len(sents[k]) = 4
            /\ P > 0 => Len(sents[P]) = (IF N % 4 = 0 THEN 4 ELSE N % 4)
            /\ N = 0 => sents = <<>>

\* the scenario "A. B. C. D. E." has been segmented into paragraphs of 4 and 1
C5_Witness ==
    /\ prog = "segmenter" /\ pc = "done"
    /\ full_text = <<"A", ".", " ", "B", ".", " ", "C", ".", " ", "D", ".", " ", "E", ".">>
    /\ Len(sents) = 2 /\ Len(sents[1]) = 4 /\ Len(sents[2]) = 1

----------------------------------------------------------------------------
(* Claims about the DocumentAssembler *)

\* invariant 1 of the data model for one relation table
LabelsValid(vs, ls) ==
    \A k \in 1..Len(ls) :
        /\ 0 <= ls[k].h /\ ls[k].h < Len(vs)
        /\ 0 <= ls[k].t /\ ls[k].t < Len(vs)
        /\ ls[k].h # ls[k].t

C7_DocumentInvariants ==
    (prog = "create_long_test_doc" /\ runs >= 1) =>
        LET total == Len(Flatten(doc.sents))
        IN  /\ LabelsValid(doc.vertexSet, doc.labels)
            /\ \A e \in 1..Len(doc.vertexSet) :
                   /\ Len(doc.vertexSet[e]) >= 1
                   /\ \A m \in 1..Len(doc.vertexSet[e]) :
                          LET mention == doc.vertexSet[e][m]
                          IN  /\ 0 <= mention.sent_id /\ mention.sent_id < total
                              /\ 0 <= mention.pos[1] /\ mention.pos[1] < mention.pos[2]

\* main has built the synthetic document: 8 entities, 7 relations, the
\* mentions reaching sentence 10
C7_Witness ==
    /\ prog = "create_long_test_doc" /\ runs >= 1
    /\ doc.id = "long_doc_marie_curie"
    /\ Len(doc.vertexSet) = 8 /\ Len(doc.labels) = 7
    /\ \E e \in 1..Len(doc.vertexSet) : doc.vertexSet[e][1].sent_id = 10
    /\ Len(Flatten(doc.sents)) > 10

----------------------------------------------------------------------------
(* Claims about the fixture file of create_long_test_doc.py (SpecSynth) *)

\* the file holds a collection: it parses, and to an array
HoldsCollection(f) == json_load(f).ok /\ json_load(f).val.k = "arr"
Collection(f) == json_load(f).val.items

\* C2: when the file held a valid collection C before a run, loading it after
\* the run yields C followed by the new document.
C2_RoundTrip ==
    (prog = "create_long_test_doc" /\ runs >= 1 /\ HoldsCollection(prev_file)) =>
        /\ err = "none"
        /\ HoldsCollection(file)
        /\ Collection(file) = Collection(prev_file) \o <<Obj(doc.id)>>

\* a run has appended to a file that held two documents
C2_Witness ==
    /\ prog = "create_long_test_doc" /\ runs >= 1
    /\ prev_file = Present(<<"[", "d1", ",", "d2", "]">>)
    /\ file = Present(<<"[", "d1", ",", "d2", ",", "long_doc_marie_curie", "]">>)

\* the file holds an array of Documents
HoldsDocuments(f) ==
    HoldsCollection(f) /\ \A k \in 1..Len(Collection(f)) : Collection(f)[k].k = "obj"

\* C3: when the file is missing, unparseable, or parseable but not an array
\* of Documents, the run starts from an empty collection and goes on to the
\* append and the write without an error.
C3_FailOpen ==
    (prog = "create_long_test_doc" /\ runs >= 1 /\ ~HoldsDocuments(prev_file)) =>
        /\ err = "none"
        /\ HoldsCollection(file)
        /\ Collection(file) = <<Obj(doc.id)>>

\* ids of a collection of Documents are non-empty and pairwise distinct
IdsUnique(items) ==
    /\ \A k \in 1..Len(items) : items[k].id # ""
    /\ \A j, k \in 1..Len(items) : j # k => items[j].id # items[k].id

\* C6: after any sequence of runs against the same file, the ids in the
\* persisted collection are non-empty and pairwise distinct (starting from a
\* file that is absent, unreadable, or a collection of Documents with
\* distinct ids).
C6_IdsUnique ==
    (/\ prog = "create_long_test_doc"
     /\ HoldsDocuments(file0) => IdsUnique(Collection(file0))
     /\ HoldsDocuments(file)) =>
        IdsUnique(Collection(file))

----------------------------------------------------------------------------
(* Claims about the CorpusFilter (SpecFetch) *)

\* the four thresholds, as the claim states them
MeetsThresholds(d) ==
    LET flat == Flatten(d.sents)
    IN  /\ Len(flat) >= 10
        /\ Len(d.vertexSet) >= 5
        /\ Len(d.labels) >= 3
        /\ Sum(flat) + (IF Len(flat) = 0 THEN 0 ELSE Len(flat) - 1) > 2000

\* 0-based positions of the qualifying candidates of the corpus
QualifyingAt == {i \in 0..(Len(dataset) - 1) : MeetsThresholds(dataset[i + 1])}

\* the k-th smallest qualifying position
NthQualifying(k) ==
    CHOOSE i \in QualifyingAt : Cardinality({j \in QualifyingAt : j < i}) = k - 1

LoopOver == prog = "fetch_docred" /\ pc \in {"save", "summary", "done"}

C8_EarlyTermination ==
    /\ prog = "fetch_docred" => consumed <= Len(dataset)
    /\ LoopOver =>
          consumed = (IF Cardinality(QualifyingAt) >= 3
                      THEN NthQualifying(3) + 1
                      ELSE Len(dataset))
    /\ (prog = "fetch_docred" /\ pc # "done") => ENABLED NextFetch

\* the loop has stopped with three documents and candidates left unread
C8_Witness ==
    /\ LoopOver /\ pc = "done"
    /\ Len(selected_docs) = 3
    /\ consumed < Len(dataset)

Written == prog = "fetch_docred" /\ pc \in {"summary", "done"}

SelectedJson == [k \in 1..Len(selected_docs) |-> Obj(selected_docs[k].id)]

----------------------------------------------------------------------------
(* Claim about the token estimate (Spec: both producers) *)

\* character count of the space-joined sentences of the documents reported
ReportedChars ==
    IF prog = "create_long_test_doc"
    THEN LET flat == Flatten(doc.sents)
         IN  <<Sum(flat) + (IF flat = <<>> THEN 0 ELSE Len(flat) - 1)>>
    ELSE [k \in 1..Len(selected_docs) |->
             LET flat == Flatten(selected_docs[k].sents)
             IN  Sum(flat) + (IF flat = <<>> THEN 0 ELSE Len(flat) - 1)]

\* C10: approx_tokens is floor(chars / 4) of the space-joined sentences, is
\* non-decreasing in the character count, and the trigger reported is YES
\* exactly when approx_tokens > 2000, in both producers.
C10_TokenEstimate ==
    (report # <<>>) =>
        /\ Len(report) = Len(ReportedChars)
        /\ \A k \in 1..Len(report) :
               /\ report[k].chars = ReportedChars[k]
               /\ 4 * report[k].tokens <= report[k].chars
               /\ report[k].chars < 4 * report[k].tokens + 4
               /\ report[k].trigger = "YES" <=> report[k].tokens > 2000
               /\ report[k].trigger \in {"YES", "NO"}
        /\ \A j, k \in 1..Len(report) :
               report[j].chars <= report[k].chars => report[j].tokens <= report[k].tokens

\* the summary reports one document above the trigger and one just below it
C10_Witness ==
    /\ prog = "fetch_docred" /\ pc = "done"
    /\ \E j, k \in 1..Len(report) :
           /\ report[j].trigger = "YES" /\ report[j].tokens = 2001
           /\ report[k].trigger = "NO" /\ report[k].tokens = 2000

====
